---- MODULE Spec2Model ----
(***************************************************************************)
(* Locomotion, collision and desktop / head-mounted synchronisation core   *)
(* of the-bean: Bean (src/unnamed/part_004, the collision version, lines   *)
(* 339-737), ControlsManager (src/src/controls/ControlsManager.ts) and the *)
(* parts of Game (src/src/game/Game.ts) that drive them.                   *)
(*                                                                         *)
(* Units.  The source works in floating point; the model is fixed point:   *)
(*   lengths in 1/100 of a world unit   (HEIGHT 0.8 -> 80),                *)
(*   time    in 1/10 of a second        (speed 6 units/s -> 60 per tick),  *)
(*   angles  in milliradians            (MOUSE_SENSITIVITY 0.002 -> 2),    *)
(*   sines and cosines in 1/1000.                                          *)
(* The geometry queries (scene.pickWithRay, scene.multiPickWithRay) and    *)
(* the XR camera pose belong to the engine and the platform: their results *)
(* are inputs of the actions, drawn from small sets.                       *)
(***************************************************************************)
EXTENDS Integers, Sequences, FiniteSets, TLC

VARIABLES
  bean,      \* Bean: position, rotation, isMoving, isRunning, cameraView, camera, group
  controls,  \* ControlsManager: keys, mouseMovement, isPointerLocked, isVRMode, xrHelper, lastKnownFloorHeight
  game,      \* Game: isRunning, world, menu, loading
  xr,        \* the platform's XR camera: world position, local y, forward direction
  op,        \* the operation that made the last step, with its inputs and what it observed
  pre,       \* the program state before that operation
  hist       \* bookkeeping over several steps: pointer events, idle frames

vars == <<bean, controls, game, xr, op, pre, hist>>

----------------------------------------------------------------------------
(* Bounds of the model *)

\* |x|, |z| explored (the collision version of move() has no boundary of its own)
MaxCoord == 2400
\* |x|, |z| explored where the world's edge plays no part
MoveCoord == 1200
\* |x|, |z| explored where the view is what matters
ViewCoord == 60
\* |yaw| explored where looking around is what matters
LookYaw == 700
\* |yaw| explored (the source never wraps the yaw)
MaxYaw == 3200
\* pending beanHopUp completion callbacks
MaxHops == 2
\* |pointer-delta accumulator| explored, in pixels
MaxMouse == 500
\* keys held at the same time
MaxHeld == 1
\* consecutive zero-axis frames counted
MaxIdle == 2

----------------------------------------------------------------------------
(* Program constants, scaled *)

HEIGHT == 80
CAMERA_HEIGHT == 120
FOLLOW_DISTANCE == 500
FOLLOW_HEIGHT == 300
MOUSE_SENSITIVITY == 2
PI == 3142

FPV == "FPV"
FOLLOW == "FOLLOW"

Abs(n) == IF n < 0 THEN -n ELSE n
Min(a, b) == IF a < b THEN a ELSE b
Max(a, b) == IF a > b THEN a ELSE b
\* integer division rounding toward zero, as a float product scaled back would
Scaled(v) == IF v >= 0 THEN v \div 1000 ELSE -((-v) \div 1000)

\* Math.sin in 1/1000, angle in milliradians (Bhaskara's rational approximation:
\* exact at 0, PI/2, PI, odd and 2*PI-periodic like the sine)
SinHalf(x) == (16 * x * (PI - x)) \div ((5 * PI * PI - 4 * x * (PI - x)) \div 1000)
Sin(a) ==
  LET m == a % (2 * PI)
  IN  IF m <= PI THEN SinHalf(m) ELSE -SinHalf(m - PI)
Cos(a) == Sin(a + PI \div 2)

\* the yaw a look-at rotation reports: the angle brought into (-PI, PI]
NormalizeAngle(a) ==
  LET m == a % (2 * PI)
  IN  IF m > PI THEN m - 2 * PI ELSE m

----------------------------------------------------------------------------
(* Bean (src/unnamed/part_004, lines 339-737) *)

Vec(x, y, z) == [x |-> x, y |-> y, z |-> z]

\* the pitch camera.setTarget() leaves in FOLLOW view: the camera is FOLLOW_HEIGHT
\* above the actor and FOLLOW_DISTANCE behind it, the target HEIGHT above it and
\* 10 units ahead: atan((3 - 0.8) / 15) = 0.1457 rad, looking down
FOLLOW_PITCH == 146

\* Bean.updatePosition(isVRMode): the desktop camera follows the actor
updatePosition(b, isVRMode) ==
  IF isVRMode THEN b
  ELSE IF b.cameraView = FPV THEN
    [b EXCEPT !.camera.position =
        Vec(b.position.x, b.position.y + CAMERA_HEIGHT, b.position.z)]
  ELSE
    [b EXCEPT
       !.camera.position =
          Vec(b.position.x - Scaled(Sin(b.rotation.y) * FOLLOW_DISTANCE),
              b.position.y + FOLLOW_HEIGHT,
              b.position.z - Scaled(Cos(b.rotation.y) * FOLLOW_DISTANCE)),
       \* camera.setTarget(): the camera's rotation is recomputed to face the target
       !.camera.rotation = [x |-> FOLLOW_PITCH, y |-> NormalizeAngle(b.rotation.y)]]

\* a variant of Bean.update that writes the bob height to the logical position
\* instead of the visual group
BeanUpdate_WritesPositionY(b) == updatePosition([b EXCEPT !.position.y = HEIGHT], FALSE)

\* Bean.update(deltaTime): bobbing and leg swing are cosmetic (they write the
\* visual group only); the call ends with updatePosition() in desktop form
BeanUpdate(b) == updatePosition(b, FALSE)

\* results of scene.pickWithRay for the movement probe: no hit, a hit without a
\* picked mesh, or a hit on a mesh whose bounding box tops out at `top`
NoHit == [hit |-> FALSE, mesh |-> FALSE, top |-> 0]
HitNoMesh == [hit |-> TRUE, mesh |-> FALSE, top |-> 0]
HitMesh(top) == [hit |-> TRUE, mesh |-> TRUE, top |-> top]

\* the collision info of a hit that cannot be stepped onto: stepHeight is absent
\* (hasStepHeight FALSE stands for undefined)
Blocking(hit) == [hit |-> hit, canStepUp |-> FALSE, hasStepHeight |-> FALSE, stepHeight |-> 0]

\* variants of checkCollisionWithStepUp: the lower limit of the step height is
\* closed; the headroom probe starts from the actor's own height
checkCollisionWithStepUp_ClosedLower(position, pick, blocked) ==
  IF ~pick.hit THEN Blocking(FALSE)
  ELSE IF ~pick.mesh THEN Blocking(TRUE)
  ELSE LET stepHeight == pick.top - (position.y - HEIGHT)
       IN  IF stepHeight >= 0 /\ stepHeight <= HEIGHT * 2
              /\ (pick.top + HEIGHT) \notin blocked
           THEN [hit |-> TRUE, canStepUp |-> TRUE, hasStepHeight |-> TRUE,
                 stepHeight |-> pick.top]
           ELSE Blocking(TRUE)
checkCollisionWithStepUp_ProbeAtActor(position, pick, blocked) ==
  IF ~pick.hit THEN Blocking(FALSE)
  ELSE IF ~pick.mesh THEN Blocking(TRUE)
  ELSE LET stepHeight == pick.top - (position.y - HEIGHT)
       IN  IF stepHeight > 0 /\ stepHeight <= HEIGHT * 2
              /\ position.y \notin blocked
           THEN [hit |-> TRUE, canStepUp |-> TRUE, hasStepHeight |-> TRUE,
                 stepHeight |-> pick.top]
           ELSE Blocking(TRUE)

\* Bean.checkCollisionWithStepUp, called when position already holds the candidate.
\* pick is the result of the first probe; blocked is the set of heights at which
\* the second probe (same x, z and direction) would report a hit.
checkCollisionWithStepUp(position, pick, blocked) ==
  IF ~pick.hit THEN Blocking(FALSE)
  ELSE IF ~pick.mesh THEN Blocking(TRUE)
  ELSE
    LET obstacleTop == pick.top
        currentFloorHeight == position.y - HEIGHT
        stepHeight == obstacleTop - currentFloorHeight
        maxStepHeight == HEIGHT * 2
        checkAboveOriginY == obstacleTop + HEIGHT
    IN  IF stepHeight > 0 /\ stepHeight <= maxStepHeight /\ checkAboveOriginY \notin blocked
        THEN [hit |-> TRUE, canStepUp |-> TRUE, hasStepHeight |-> TRUE,
              stepHeight |-> obstacleTop]
        ELSE Blocking(TRUE)

\* a variant of Displacement whose strafe vector is (cos(yaw), 0, sin(yaw))
Displacement_StrafeZPlus(b, forward, strafe, deltaTime) ==
  LET speed == IF b.isRunning THEN 120 ELSE 60
      moveSpeed == speed * deltaTime
      forwardX == Scaled(Sin(b.rotation.y) * forward * moveSpeed)
      forwardZ == Scaled(Cos(b.rotation.y) * forward * moveSpeed)
      strafeX == Scaled(Cos(b.rotation.y) * strafe * moveSpeed)
      strafeZ == Scaled(Sin(b.rotation.y) * strafe * moveSpeed)
  IN  [x |-> forwardX + strafeX, z |-> forwardZ + strafeZ]

\* the candidate displacement of move(): (forwardX + strafeX, forwardZ + strafeZ)
Displacement(b, forward, strafe, deltaTime) ==
  LET speed == IF b.isRunning THEN 120 ELSE 60
      moveSpeed == speed * deltaTime
      forwardX == Scaled(Sin(b.rotation.y) * forward * moveSpeed)
      forwardZ == Scaled(Cos(b.rotation.y) * forward * moveSpeed)
      strafeX == Scaled(Cos(b.rotation.y) * strafe * moveSpeed)
      strafeZ == Scaled(-Sin(b.rotation.y) * strafe * moveSpeed)
  IN  [x |-> forwardX + strafeX, z |-> forwardZ + strafeZ]

\* variants of Bean.move: the rollback restores x only; the step-up lands on the
\* obstacle's top without the actor's height; the step-up drops the displacement
moveVariant(b, forward, strafe, deltaTime, pick, blocked, variant) ==
  IF forward # 0 \/ strafe # 0 THEN
    LET d == Displacement(b, forward, strafe, deltaTime)
        candidate == Vec(b.position.x + d.x, b.position.y, b.position.z + d.z)
        collisionInfo == checkCollisionWithStepUp(candidate, pick, blocked)
        targetHeight == collisionInfo.stepHeight +
                          (IF variant = "onTop" THEN 0 ELSE HEIGHT)
    IN  IF collisionInfo.hit THEN
          IF collisionInfo.canStepUp /\ collisionInfo.hasStepHeight THEN
            [b EXCEPT !.isMoving = TRUE, !.hops = Append(@, targetHeight),
                      !.position = IF variant = "stepInPlace"
                                   THEN [b.position EXCEPT !.y = targetHeight]
                                   ELSE [candidate EXCEPT !.y = targetHeight]]
          ELSE [b EXCEPT !.isMoving = TRUE,
                         !.position = IF variant = "partialRollback"
                                      THEN [candidate EXCEPT !.x = b.position.x]
                                      ELSE b.position]
        ELSE [b EXCEPT !.isMoving = TRUE, !.position = candidate]
  ELSE [b EXCEPT !.isMoving = FALSE]
move_PartialRollback(b, forward, strafe, deltaTime, pick, blocked) ==
  moveVariant(b, forward, strafe, deltaTime, pick, blocked, "partialRollback")
move_StepOnTop(b, forward, strafe, deltaTime, pick, blocked) ==
  moveVariant(b, forward, strafe, deltaTime, pick, blocked, "onTop")

\* Bean.move(forward, strafe, deltaTime)
move(b, forward, strafe, deltaTime, pick, blocked) ==
  IF forward # 0 \/ strafe # 0 THEN
    LET d == Displacement(b, forward, strafe, deltaTime)
        oldPosition == b.position
        candidate == Vec(b.position.x + d.x, b.position.y, b.position.z + d.z)
        collisionInfo == checkCollisionWithStepUp(candidate, pick, blocked)
    IN  IF collisionInfo.hit THEN
          IF collisionInfo.canStepUp /\ collisionInfo.hasStepHeight THEN
            LET targetHeight == collisionInfo.stepHeight + HEIGHT
            IN  [b EXCEPT !.isMoving = TRUE,
                          \* beanHopUp started: its completion callback is pending
                          !.hops = Append(@, targetHeight),
                          !.position = [candidate EXCEPT !.y = targetHeight]]
          ELSE [b EXCEPT !.isMoving = TRUE, !.position = oldPosition]
        ELSE [b EXCEPT !.isMoving = TRUE, !.position = candidate]
  ELSE [b EXCEPT !.isMoving = FALSE]

\* a variant of rotate that limits the pitch from below only
rotate_ClampsLowerOnly(b, yaw, pitch) ==
  LET r == [b EXCEPT !.rotation.y = @ + yaw]
  IN  IF r.cameraView = FPV
      THEN [r EXCEPT !.camera.rotation =
              [x |-> Max(-(PI \div 3), r.camera.rotation.x + pitch), y |-> r.rotation.y]]
      ELSE r

\* Bean.rotate(yaw, pitch)
rotate(b, yaw, pitch) ==
  LET r == [b EXCEPT !.rotation.y = @ + yaw]
  IN  IF r.cameraView = FPV
      THEN [r EXCEPT !.camera.rotation =
              [x |-> Max(-(PI \div 3), Min(PI \div 3, r.camera.rotation.x + pitch)),
               y |-> r.rotation.y]]
      ELSE r

\* Bean.setRunning(running)
setRunning(b, running) == [b EXCEPT !.isRunning = running]

\* a variant of setCameraView that keeps the camera's pitch
setCameraView_KeepsPitch(b, view) ==
  LET v == [b EXCEPT !.cameraView = view]
      c == IF view = FPV
           THEN [v EXCEPT !.camera.rotation.y = v.rotation.y]
           ELSE v
  IN  [updatePosition(c, FALSE) EXCEPT !.groupEnabled = (view = FOLLOW)]

\* Bean.setCameraView(view)
setCameraView(b, view) ==
  LET v == [b EXCEPT !.cameraView = view]
      c == IF view = FPV
           THEN [v EXCEPT !.camera.rotation = [x |-> 0, y |-> v.rotation.y]]
           ELSE v
  IN  [updatePosition(c, FALSE) EXCEPT !.groupEnabled = (view = FOLLOW)]

\* a variant of resetPosition that also goes back to the first-person view
resetPosition_ResetsView(b) ==
  updatePosition([b EXCEPT !.position = Vec(0, HEIGHT, 0),
                           !.rotation = Vec(0, 0, 0),
                           !.camera.rotation = [x |-> 0, y |-> 0],
                           !.cameraView = FPV], FALSE)

\* Bean.resetPosition()
resetPosition(b) ==
  updatePosition([b EXCEPT !.position = Vec(0, HEIGHT, 0),
                           !.rotation = Vec(0, 0, 0),
                           !.camera.rotation = [x |-> 0, y |-> 0]], FALSE)

\* the onAnimationEnd callback of the oldest pending beanHopUp
hopEnd(b) == [b EXCEPT !.position.y = Head(b.hops), !.hops = Tail(@)]

\* Bean after its constructor and init()
BeanInit ==
  updatePosition(
    [position |-> Vec(0, HEIGHT, 0), rotation |-> Vec(0, 0, 0),
     isMoving |-> FALSE, isRunning |-> FALSE, cameraView |-> FPV,
     camera |-> [position |-> Vec(0, 160, 0), rotation |-> [x |-> 0, y |-> 0]],
     groupEnabled |-> TRUE, hops |-> <<>>], FALSE)

----------------------------------------------------------------------------
(* ControlsManager (src/src/controls/ControlsManager.ts) *)

\* e.key.toLowerCase() of the keys the program reads
Keys == {"w", "s", "arrowup", "arrowdown", "z", "x", "a", "d",
         "arrowleft", "arrowright", "shift", "1", "2", "escape"}

\* a variant of releaseAllKeys that resets the running flag only
releaseAllKeys_KeepsKeys(s) == [s EXCEPT !.bean = setRunning(@, FALSE)]

\* ControlsManager.releaseAllKeys(): keys.clear(); bean.setRunning(false)
releaseAllKeys(s) ==
  [s EXCEPT !.controls.keys = {}, !.bean = setRunning(@, FALSE)]

\* document.exitPointerLock() when the pointer is locked: the document gives the
\* lock up at once; isPointerLocked follows with the pointerlockchange event
exitPointerLockIfLocked(s) ==
  IF s.controls.isPointerLocked THEN [s EXCEPT !.game.pointerLockElement = FALSE] ELSE s

\* ControlsManager.setEnabled(enabled)
setEnabled(s, enabled) ==
  IF ~enabled THEN exitPointerLockIfLocked(releaseAllKeys(s)) ELSE s

\* ControlsManager.setVRMode(enabled, xrHelper)
setVRMode(s, enabled, xrHelper) ==
  LET t == [s EXCEPT !.controls.isVRMode = enabled, !.controls.xrHelper = xrHelper]
  IN  IF enabled THEN exitPointerLockIfLocked(releaseAllKeys(t)) ELSE t

\* the key-derived axes of updateDesktopControls, assigned in the source's order
forwardAxis(keys) ==
  LET f1 == IF "w" \in keys \/ "arrowup" \in keys THEN 1 ELSE 0
  IN  IF "s" \in keys \/ "arrowdown" \in keys THEN -1 ELSE f1
\* variants of strafeAxis: only A and D strafe; the Z/X pair is read after the
\* A/D pair
strafeAxis_OnlyAD(keys) ==
  LET s3 == IF "a" \in keys THEN -1 ELSE 0
  IN  IF "d" \in keys THEN 1 ELSE s3
strafeAxis_ZXLast(keys) ==
  LET s1 == IF "a" \in keys THEN -1 ELSE 0
      s2 == IF "d" \in keys THEN 1 ELSE s1
      s3 == IF "z" \in keys THEN -1 ELSE s2
  IN  IF "x" \in keys THEN 1 ELSE s3
strafeAxis(keys) ==
  LET s1 == IF "z" \in keys THEN -1 ELSE 0
      s2 == IF "x" \in keys THEN 1 ELSE s1
      s3 == IF "a" \in keys THEN -1 ELSE s2
  IN  IF "d" \in keys THEN 1 ELSE s3
rotateSpeed(keys) ==
  LET r1 == IF "arrowleft" \in keys THEN -2 ELSE 0
  IN  IF "arrowright" \in keys THEN 2 ELSE r1

\* the pointer part of updateDesktopControls: a non-zero accumulator is turned
\* into one rotate() call and cleared
applyMouse(s) ==
  LET m == s.controls.mouseMovement
  IN  IF m.x # 0 \/ m.y # 0
      THEN [s EXCEPT !.bean = rotate(@, m.x * MOUSE_SENSITIVITY, -m.y * MOUSE_SENSITIVITY),
                     !.controls.mouseMovement = [x |-> 0, y |-> 0]]
      ELSE s

\* ControlsManager.updateDesktopControls(deltaTime)
updateDesktopControls(s, deltaTime, pick, blocked) ==
  IF ~s.controls.isPointerLocked THEN s
  ELSE
    LET keys == s.controls.keys
        b1 == setRunning(s.bean, "shift" \in keys)
        b2 == move(b1, forwardAxis(keys), strafeAxis(keys), deltaTime, pick, blocked)
        \* rotateSpeed (rad/s) * deltaTime (1/10 s), in milliradians
        b3 == IF rotateSpeed(keys) # 0
              THEN rotate(b2, rotateSpeed(keys) * deltaTime * 100, 0)
              ELSE b2
    IN  applyMouse([s EXCEPT !.bean = b3])

\* one entry of scene.multiPickWithRay's result: valid stands for
\* pickInfo.hit && pickInfo.pickedPoint, y for pickedPoint.y
Hit(y) == [valid |-> TRUE, y |-> y]
Miss == [valid |-> FALSE, y |-> 0]

\* first loop of detectFloorHeight: the highest valid hit at or below limit;
\* found FALSE stands for closestFloor = -Infinity
RECURSIVE closestFloor(_, _, _)
closestFloor(hits, limit, acc) ==
  IF hits = <<>> THEN acc
  ELSE LET h == Head(hits)
           take == h.valid /\ h.y <= limit /\ (~acc.found \/ h.y > acc.y)
       IN  closestFloor(Tail(hits), limit,
                        IF take THEN [found |-> TRUE, y |-> h.y] ELSE acc)

\* second loop of detectFloorHeight: the lowest valid hit;
\* found FALSE stands for lowestY = Infinity
RECURSIVE lowestY(_, _)
lowestY(hits, acc) ==
  IF hits = <<>> THEN acc
  ELSE LET h == Head(hits)
           take == h.valid /\ (~acc.found \/ h.y < acc.y)
       IN  lowestY(Tail(hits), IF take THEN [found |-> TRUE, y |-> h.y] ELSE acc)

NotFound == [found |-> FALSE, y |-> 0]

\* variants of detectFloorHeight: a probe without a valid hit forgets the
\* recorded height; the nearest-from-below rule has no slack above the actor
detectFloorHeight_ForgetOnMiss(position, hits, lastKnownFloorHeight) ==
  LET closest == closestFloor(hits, position.y + 50, NotFound)
      lowest == lowestY(hits, NotFound)
  IN  IF Len(hits) > 0 /\ closest.found
        THEN [height |-> closest.y, last |-> closest.y]
      ELSE IF Len(hits) > 0 /\ lowest.found
        THEN [height |-> lowest.y, last |-> lowest.y]
      ELSE [height |-> 0, last |-> 0]
detectFloorHeight_NoSlack(position, hits, lastKnownFloorHeight) ==
  LET closest == closestFloor(hits, position.y, NotFound)
      lowest == lowestY(hits, NotFound)
  IN  IF Len(hits) > 0 /\ closest.found
        THEN [height |-> closest.y, last |-> closest.y]
      ELSE IF Len(hits) > 0 /\ lowest.found
        THEN [height |-> lowest.y, last |-> lowest.y]
      ELSE [height |-> lastKnownFloorHeight, last |-> lastKnownFloorHeight]

\* ControlsManager.detectFloorHeight(position): the height returned and the
\* lastKnownFloorHeight it leaves; hits is multiPickInfo
detectFloorHeight(position, hits, lastKnownFloorHeight) ==
  LET closest == closestFloor(hits, position.y + 50, NotFound)
      lowest == lowestY(hits, NotFound)
  IN  IF Len(hits) > 0 /\ closest.found
        THEN [height |-> closest.y, last |-> closest.y]
      ELSE IF Len(hits) > 0 /\ lowest.found
        THEN [height |-> lowest.y, last |-> lowest.y]
      ELSE [height |-> lastKnownFloorHeight, last |-> lastKnownFloorHeight]

\* a variant of updateVRControls that takes the actor's height from the camera's
\* world height instead of the floor sample
updateVRControls_HeightFromCamera(s, hits) ==
  IF ~s.controls.xrHelper THEN s
  ELSE
    LET cameraWorldPos == s.xr.globalPosition
        p1 == [s.bean.position EXCEPT !.x = cameraWorldPos.x, !.z = cameraWorldPos.z]
        floor == detectFloorHeight(p1, hits, s.controls.lastKnownFloorHeight)
        p2 == [p1 EXCEPT !.y = cameraWorldPos.y - 160 + HEIGHT]
        heightError == cameraWorldPos.y - (floor.height + 160)
        localY == IF Abs(heightError) > 1 THEN s.xr.localY - heightError ELSE s.xr.localY
        rotY == IF s.xr.flat THEN s.xr.yaw ELSE s.bean.rotation.y
        b == [s.bean EXCEPT !.position = p2, !.rotation.y = rotY]
    IN  [s EXCEPT !.bean = updatePosition(b, TRUE),
                  !.controls.lastKnownFloorHeight = floor.last,
                  !.xr.localY = localY]

\* a variant of updateVRControls that corrects the camera from an error of 0.01 on
updateVRControls_CorrectsAtThreshold(s, hits) ==
  IF ~s.controls.xrHelper THEN s
  ELSE
    LET cameraWorldPos == s.xr.globalPosition
        p1 == [s.bean.position EXCEPT !.x = cameraWorldPos.x, !.z = cameraWorldPos.z]
        floor == detectFloorHeight(p1, hits, s.controls.lastKnownFloorHeight)
        p2 == [p1 EXCEPT !.y = floor.height + HEIGHT]
        heightError == cameraWorldPos.y - (floor.height + 160)
        localY == IF Abs(heightError) >= 1 THEN s.xr.localY - heightError ELSE s.xr.localY
        rotY == IF s.xr.flat THEN s.xr.yaw ELSE s.bean.rotation.y
        b == [s.bean EXCEPT !.position = p2, !.rotation.y = rotY]
    IN  [s EXCEPT !.bean = updatePosition(b, TRUE),
                  !.controls.lastKnownFloorHeight = floor.last,
                  !.xr.localY = localY]

\* variants of updateVRControls: the head's yaw is added to the actor's yaw; the
\* actor is kept inside the world's boundary
updateVRControls_AccumulatesYaw(s, hits) ==
  IF ~s.controls.xrHelper THEN s
  ELSE
    LET cameraWorldPos == s.xr.globalPosition
        p1 == [s.bean.position EXCEPT !.x = cameraWorldPos.x, !.z = cameraWorldPos.z]
        floor == detectFloorHeight(p1, hits, s.controls.lastKnownFloorHeight)
        p2 == [p1 EXCEPT !.y = floor.height + HEIGHT]
        heightError == cameraWorldPos.y - (floor.height + 160)
        localY == IF Abs(heightError) > 1 THEN s.xr.localY - heightError ELSE s.xr.localY
        rotY == IF s.xr.flat THEN s.bean.rotation.y + s.xr.yaw ELSE s.bean.rotation.y
        b == [s.bean EXCEPT !.position = p2, !.rotation.y = rotY]
    IN  [s EXCEPT !.bean = updatePosition(b, TRUE),
                  !.controls.lastKnownFloorHeight = floor.last,
                  !.xr.localY = localY]
updateVRControls_Clamped(s, hits) ==
  IF ~s.controls.xrHelper THEN s
  ELSE
    LET cameraWorldPos == s.xr.globalPosition
        p1 == [s.bean.position EXCEPT
                 !.x = Max(-2300, Min(2300, cameraWorldPos.x)),
                 !.z = Max(-2300, Min(2300, cameraWorldPos.z))]
        floor == detectFloorHeight(p1, hits, s.controls.lastKnownFloorHeight)
        p2 == [p1 EXCEPT !.y = floor.height + HEIGHT]
        heightError == cameraWorldPos.y - (floor.height + 160)
        localY == IF Abs(heightError) > 1 THEN s.xr.localY - heightError ELSE s.xr.localY
        rotY == IF s.xr.flat THEN s.xr.yaw ELSE s.bean.rotation.y
        b == [s.bean EXCEPT !.position = p2, !.rotation.y = rotY]
    IN  [s EXCEPT !.bean = updatePosition(b, TRUE),
                  !.controls.lastKnownFloorHeight = floor.last,
                  !.xr.localY = localY]

\* ControlsManager.updateVRControls(deltaTime)
updateVRControls(s, hits) ==
  IF ~s.controls.xrHelper THEN s
  ELSE
    LET cameraWorldPos == s.xr.globalPosition
        p1 == [s.bean.position EXCEPT !.x = cameraWorldPos.x, !.z = cameraWorldPos.z]
        floor == detectFloorHeight(p1, hits, s.controls.lastKnownFloorHeight)
        floorHeight == floor.height
        p2 == [p1 EXCEPT !.y = floorHeight + HEIGHT]
        desiredCameraHeight == floorHeight + 160
        heightError == cameraWorldPos.y - desiredCameraHeight
        localY == IF Abs(heightError) > 1 THEN s.xr.localY - heightError ELSE s.xr.localY
        \* atan2 of the horizontal forward direction, when it is longer than 0.01
        rotY == IF s.xr.flat THEN s.xr.yaw ELSE s.bean.rotation.y
        b == [s.bean EXCEPT !.position = p2, !.rotation.y = rotY]
    IN  [s EXCEPT !.bean = updatePosition(b, TRUE),
                  !.controls.lastKnownFloorHeight = floor.last,
                  !.xr.localY = localY]

\* ControlsManager.update(deltaTime)
controlsUpdate(s, deltaTime, pick, blocked, hits) ==
  IF s.controls.isVRMode THEN updateVRControls(s, hits)
  ELSE updateDesktopControls(s, deltaTime, pick, blocked)

----------------------------------------------------------------------------
(* Game (src/src/game/Game.ts) *)

\* Game.showMainMenu(): controls "disabled", menu created and shown
showMainMenu(s) == [setEnabled(s, FALSE) EXCEPT !.game.menu = TRUE]

\* Game.returnToMenu(): the world is disposed and the menu shown
returnToMenu(s) == showMainMenu([s EXCEPT !.game.world = "none"])

\* Game.update(deltaTime)
gameUpdate(s, deltaTime, pick, blocked, hits) ==
  IF ~s.game.isRunning THEN s
  ELSE LET c == controlsUpdate(s, deltaTime, pick, blocked, hits)
       IN  [c EXCEPT !.bean = BeanUpdate(@)]

\* scene.render() of the render loop, after the before-render callback: the XR
\* camera's world matrix is recomputed, so its world height follows the local
\* height the callback set
render(before, after) ==
  [after EXCEPT !.xr.globalPosition.y = @ + (after.xr.localY - before.xr.localY)]

----------------------------------------------------------------------------
(* The state machine *)

State == [bean |-> bean, controls |-> controls, game |-> game, xr |-> xr]

\* what is remembered of the state before an operation
Snapshot ==
  [bean |-> bean, mouseMovement |-> controls.mouseMovement,
   lastKnownFloorHeight |-> controls.lastKnownFloorHeight,
   isPointerLocked |-> controls.isPointerLocked, isVRMode |-> controls.isVRMode,
   xr |-> xr, menu |-> game.menu]

\* a variant of the ControlsManager's initial fields with the head-mounted flag set
ControlsInit_InVRMode ==
  [keys |-> {}, mouseMovement |-> [x |-> 0, y |-> 0], isPointerLocked |-> FALSE,
   isVRMode |-> TRUE, xrHelper |-> FALSE, lastKnownFloorHeight |-> 0]

\* the ControlsManager's fields after its constructor
ControlsInit ==
  [keys |-> {}, mouseMovement |-> [x |-> 0, y |-> 0], isPointerLocked |-> FALSE,
   isVRMode |-> FALSE, xrHelper |-> FALSE, lastKnownFloorHeight |-> 0]

\* after main(): Game constructed, init() done (menu shown), start() called;
\* xrSupported says whether setupWebXR() obtained an XR helper
GameInit(xrSupported) ==
  [isRunning |-> TRUE, world |-> "none", loading |-> "none", menu |-> TRUE,
   pointerLockElement |-> FALSE, xrSupported |-> xrSupported, inXR |-> FALSE]

XRInit == [globalPosition |-> Vec(0, 160, 0), localY |-> 160, yaw |-> 0, flat |-> TRUE]

Zero2 == [x |-> 0, y |-> 0]

\* the last operation, its inputs and what it observed
NoOp ==
  [name |-> "init", key |-> "", dt |-> 0, dx |-> 0, dy |-> 0,
   desktop |-> FALSE, vr |-> FALSE, moved |-> FALSE, forward |-> 0, strafe |-> 0,
   pick |-> NoHit, blocked |-> {}, info |-> Blocking(FALSE),
   hits |-> <<>>, floor |-> 0, pressed |-> FALSE,
   \* of a frame: the bookkeeping it found
   framed |-> FALSE, events |-> Zero2, accepted |-> Zero2]

\* bookkeeping of the runs of steps the properties speak about.  A desktop frame
\* is a frame in which updateDesktopControls ran past its pointer-lock test.
HistInit ==
  [framed |-> FALSE,                 \* a desktop frame has happened
   events |-> [x |-> 0, y |-> 0],    \* sum of all mousemove events since the last desktop frame
   accepted |-> [x |-> 0, y |-> 0],  \* sum of those that arrived with the pointer locked, outside VR
   idleN |-> 0, idleBase |-> Vec(0, HEIGHT, 0),
   blurred |-> FALSE,                \* the window lost focus and no keydown arrived since
   blurKeys |-> {}]                  \* the keys that were held when it did

InitWith(xrSupported) ==
  /\ bean = BeanInit
  /\ controls = ControlsInit
  /\ game = GameInit(xrSupported)
  /\ xr = XRInit
  /\ op = NoOp
  /\ pre = Snapshot
  /\ hist = HistInit

\* the step to state t made by operation o; h is the bookkeeping after it
Commit(t, o, h) ==
  /\ bean' = t.bean
  /\ controls' = t.controls
  /\ game' = t.game
  /\ xr' = t.xr
  /\ op' = o
  /\ pre' = Snapshot
  \* outside a run of idle frames no base position is remembered
  /\ hist' = IF h.idleN = 0 THEN [h EXCEPT !.idleBase = t.bean.position] ELSE h

\* any operation but a frame ends a run of idle frames
Broken == [hist EXCEPT !.idleN = 0]

\* keydown listener (setupKeyboardControls), with at most `held` keys held
KeyPress(k, held) ==
  /\ Cardinality(controls.keys \cup {k}) <= held
  /\ LET s1 == [State EXCEPT !.controls.keys = @ \cup {k}]
         \* 'Escape': the pointer lock is given up and returnToMenu is dispatched
         \* (the Game's listener runs inside dispatchEvent)
         s2 == IF k = "escape" THEN returnToMenu(exitPointerLockIfLocked(s1)) ELSE s1
         s3 == IF k = "1" THEN [s2 EXCEPT !.bean = setCameraView(@, FPV)]
               ELSE IF k = "2" THEN [s2 EXCEPT !.bean = setCameraView(@, FOLLOW)]
               ELSE s2
     IN  Commit(s3, [NoOp EXCEPT !.name = "keydown", !.key = k],
                [Broken EXCEPT !.blurred = FALSE, !.blurKeys = {}])

\* keydown listener (setupKeyboardControls)
KeyDown(k) == KeyPress(k, MaxHeld)

\* keyup listener (setupKeyboardControls)
KeyUp(k) ==
  /\ k \in controls.keys
  /\ Commit([State EXCEPT !.controls.keys = @ \ {k}],
            [NoOp EXCEPT !.name = "keyup", !.key = k], Broken)

\* a variant of the mousemove listener that keeps the last event only
mouseMove_Overwrite(c, dx, dy) ==
  IF c.isPointerLocked /\ ~c.isVRMode
  THEN [c EXCEPT !.mouseMovement = [x |-> dx, y |-> dy]]
  ELSE c

\* mousemove listener (setupMouseControls)
mouseMove(c, dx, dy) ==
  IF c.isPointerLocked /\ ~c.isVRMode
  THEN [c EXCEPT !.mouseMovement = [x |-> @.x + dx, y |-> @.y + dy]]
  ELSE c

MouseMove(dx, dy) ==
  LET c == mouseMove(controls, dx, dy)
      taken == controls.isPointerLocked /\ ~controls.isVRMode
  IN  /\ Abs(hist.events.x + dx) <= MaxMouse /\ Abs(hist.events.y + dy) <= MaxMouse
      /\ Abs(c.mouseMovement.x) <= MaxMouse /\ Abs(c.mouseMovement.y) <= MaxMouse
      /\ Commit([State EXCEPT !.controls = c],
                [NoOp EXCEPT !.name = "mousemove", !.dx = dx, !.dy = dy],
                [Broken EXCEPT !.events = [x |-> @.x + dx, y |-> @.y + dy],
                               !.accepted = IF taken
                                            THEN [x |-> @.x + dx, y |-> @.y + dy]
                                            ELSE @])

\* click listener of the canvas (setupPointerLock): the lock is requested, and
\* granted by the document, unless the menu is visible
Click ==
  /\ ~controls.isPointerLocked /\ ~controls.isVRMode /\ ~game.menu
  /\ ~game.pointerLockElement
  /\ Commit([State EXCEPT !.game.pointerLockElement = TRUE],
            [NoOp EXCEPT !.name = "click"], Broken)

\* the browser takes the pointer lock away (its own Escape handling, a tab switch)
LockLost ==
  /\ game.pointerLockElement
  /\ Commit([State EXCEPT !.game.pointerLockElement = FALSE],
            [NoOp EXCEPT !.name = "locklost"], Broken)

\* pointerlockchange listener (setupPointerLock)
PointerLockChange ==
  /\ controls.isPointerLocked # game.pointerLockElement
  /\ Commit([State EXCEPT !.controls.isPointerLocked = game.pointerLockElement],
            [NoOp EXCEPT !.name = "pointerlockchange"], Broken)

\* blur listener (Game.setupEventListeners)
Blur ==
  Commit(releaseAllKeys(State), [NoOp EXCEPT !.name = "blur"],
         [Broken EXCEPT !.blurred = TRUE, !.blurKeys = controls.keys])

\* completion of the oldest beanHopUp animation (the callback given to
\* Animation.CreateAndStartAnimation in move())
HopEnd ==
  /\ bean.hops # <<>>
  /\ Commit([State EXCEPT !.bean = hopEnd(@)], [NoOp EXCEPT !.name = "hopend"], Broken)

\* the collision info move() obtains in a frame that moves the actor
moveInfo(b, forward, strafe, deltaTime, pick, blocked) ==
  LET d == Displacement(b, forward, strafe, deltaTime)
  IN  checkCollisionWithStepUp(
        Vec(b.position.x + d.x, b.position.y, b.position.z + d.z), pick, blocked)

\* one rendered frame: the callback registered with registerBeforeRender in
\* Game.init(), that is Game.update(deltaTime).  pick and blocked are what the
\* scene answers to the probes of move(), hits what it answers to the floor probe.
Frame(deltaTime, pick, blocked, hits) ==
  LET desktop == game.isRunning /\ ~controls.isVRMode /\ controls.isPointerLocked
      vr == game.isRunning /\ controls.isVRMode /\ controls.xrHelper
      forward == forwardAxis(controls.keys)
      strafe == strafeAxis(controls.keys)
      moved == desktop /\ (forward # 0 \/ strafe # 0)
      running == setRunning(bean, "shift" \in controls.keys)
      t == render(State, gameUpdate(State, deltaTime, pick, blocked, hits))
      idle == ~controls.isVRMode /\ forward = 0 /\ strafe = 0
      floor == detectFloorHeight(
                 [bean.position EXCEPT !.x = xr.globalPosition.x, !.z = xr.globalPosition.z],
                 hits, controls.lastKnownFloorHeight)
  IN  \* inputs that are not read are kept at one value
      /\ moved \/ (pick = NoHit /\ blocked = {})
      /\ pick.mesh \/ blocked = {}
      /\ vr \/ hits = <<>>
      \* the floor probe spans 10 units above and below the actor
      /\ \A i \in 1..Len(hits) : hits[i].valid => Abs(hits[i].y - bean.position.y) <= 1000
      \* bounds of the exploration
      /\ Abs(t.bean.position.x) <= MaxCoord /\ Abs(t.bean.position.z) <= MaxCoord
      /\ Abs(t.bean.rotation.y) <= MaxYaw
      /\ Len(t.bean.hops) <= MaxHops
      /\ Commit(t,
                [NoOp EXCEPT !.name = "frame", !.dt = deltaTime,
                             !.desktop = desktop, !.vr = vr, !.moved = moved,
                             !.forward = forward, !.strafe = strafe,
                             !.pick = pick, !.blocked = blocked,
                             !.info = IF moved
                                      THEN moveInfo(running, forward, strafe, deltaTime,
                                                    pick, blocked)
                                      ELSE Blocking(FALSE),
                             !.hits = hits, !.framed = hist.framed,
                             !.events = hist.events, !.accepted = hist.accepted,
                             !.floor = IF vr THEN floor.height ELSE 0],
                [framed |-> hist.framed \/ desktop,
                 events |-> IF desktop THEN [x |-> 0, y |-> 0] ELSE hist.events,
                 accepted |-> IF desktop THEN [x |-> 0, y |-> 0] ELSE hist.accepted,
                 idleN |-> IF idle THEN Min(hist.idleN + 1, MaxIdle) ELSE 0,
                 idleBase |-> IF idle /\ hist.idleN > 0 THEN hist.idleBase ELSE bean.position,
                 blurred |-> hist.blurred, blurKeys |-> hist.blurKeys])

\* the menu's callback: Game.loadWorld(worldId) up to `await this.world.init()`.
\* The menu closes on a selection.
SelectWorld(worldId) ==
  /\ game.menu /\ game.loading = "none"
  /\ Commit([State EXCEPT !.game.world = worldId, !.game.loading = worldId,
                          !.game.menu = FALSE],
            [NoOp EXCEPT !.name = "selectworld", !.key = worldId], Broken)

\* Game.loadWorld after world.init() resolved: reset the player, enable controls
WorldLoaded ==
  /\ game.loading # "none"
  /\ Commit(setEnabled([State EXCEPT !.bean = resetPosition(@), !.game.loading = "none"],
                       TRUE),
            [NoOp EXCEPT !.name = "worldloaded"], Broken)

\* Game.loadWorld after world.init() rejected: back to the menu
WorldFailed ==
  /\ game.loading # "none"
  /\ Commit(showMainMenu([State EXCEPT !.game.loading = "none"]),
            [NoOp EXCEPT !.name = "worldfailed"], Broken)

\* onStateChangedObservable, WebXRState.IN_XR (Game.setupWebXR)
XREnter ==
  /\ game.xrSupported /\ ~game.inXR
  /\ Commit(setVRMode([State EXCEPT !.game.inXR = TRUE], TRUE, TRUE),
            [NoOp EXCEPT !.name = "xrenter"], Broken)

\* onStateChangedObservable, WebXRState.NOT_IN_XR (Game.setupWebXR)
XRExit ==
  /\ game.inXR
  /\ Commit(setVRMode([State EXCEPT !.game.inXR = FALSE], FALSE, FALSE),
            [NoOp EXCEPT !.name = "xrexit"], Broken)

\* the platform moves the XR camera (head pose, the movement feature)
XRPose(p) ==
  /\ game.inXR
  /\ xr # p
  /\ Commit([State EXCEPT !.xr = p], [NoOp EXCEPT !.name = "xrpose"], Broken)

\* right controller trigger (setupRightController): bean.setRunning(pressed)
Trigger(pressed) ==
  /\ game.inXR
  /\ Commit([State EXCEPT !.bean = setRunning(@, pressed)],
            [NoOp EXCEPT !.name = "trigger", !.pressed = pressed], Broken)

----------------------------------------------------------------------------
(* Desktop locomotion: keys, frames with the probes' answers, hop completions,
   world loads *)

MoveKeys == {"w", "d", "shift"}
\* frame durations: 1 s, as in the spec's scenarios
DtSet == {10}
\* obstacle tops: a low box (the spec's scenario B) and a tall one
Tops == {100, 250}
Picks == {NoHit, HitNoMesh} \cup {HitMesh(t) : t \in Tops}
\* heights at which the headroom probe is answered with a hit
BlockedSets == {{}, {100 + HEIGHT}}

NextMove ==
  \/ \E k \in MoveKeys : KeyDown(k)
  \/ \E k \in MoveKeys : KeyUp(k)
  \/ Click
  \/ PointerLockChange
  \/ \E dt \in DtSet, pick \in Picks, blocked \in BlockedSets :
       /\ Frame(dt, pick, blocked, <<>>)
       /\ Abs(bean'.position.x) <= MoveCoord /\ Abs(bean'.position.z) <= MoveCoord
  \/ HopEnd
  \/ SelectWorld("low-poly")
  \/ WorldLoaded

\* a platform without WebXR
InitDesktop == InitWith(FALSE)

SpecMove == InitDesktop /\ [][NextMove]_vars

\* the last step was a frame in which move() displaced the actor and probed
MovedFrame == op.name = "frame" /\ op.moved

\* the candidate displacement of that frame's move() call (the yaw is read
\* before the frame's rotation, the running flag after its setRunning)
FrameDisplacement ==
  Displacement([pre.bean EXCEPT !.isRunning = bean.isRunning],
               op.forward, op.strafe, op.dt)

\* C1 (rollback exactness): after a frame whose move() had a non-zero axis and
\* whose probe reported a hit that is not step-up eligible, the actor's position
\* (x, y and z) is exactly the position before the frame.
C1_RollbackExact ==
  (MovedFrame /\ op.info.hit /\ ~op.info.canStepUp)
    => bean.position = pre.bean.position

\* a rollback away from the origin, against an obstacle too tall to step onto,
\* of a candidate that differed from the position
C1_Witness ==
  /\ MovedFrame /\ op.info.hit /\ ~op.info.canStepUp /\ op.pick.mesh
  /\ op.forward = 1 /\ FrameDisplacement.z = 600
  /\ pre.bean.position = Vec(0, HEIGHT, 600)
  /\ bean.position = Vec(0, HEIGHT, 600)

C5_StepUpEffect ==
  (MovedFrame /\ op.info.canStepUp)
    => /\ bean.position.y = op.pick.top + HEIGHT
       /\ bean.position.x = pre.bean.position.x + FrameDisplacement.x
       /\ bean.position.z = pre.bean.position.z + FrameDisplacement.z

\* the spec's scenario B: obstacle top 1.0, forward for 1 s at speed 6 from
\* (0, 0.8, 0) ends at (0, 1.8, 6)
C5_Witness ==
  /\ MovedFrame /\ op.info.canStepUp /\ op.pick = HitMesh(100)
  /\ op.forward = 1 /\ op.strafe = 0 /\ op.dt = 10 /\ ~bean.isRunning
  /\ pre.bean.position = Vec(0, HEIGHT, 0) /\ pre.bean.rotation.y = 0
  /\ bean.position = Vec(0, 180, 600)

----------------------------------------------------------------------------
(* The world's edge: walking straight on with nothing in the way *)

\* the boundary of the clamping version of move() (Math.max(-23, Math.min(23, ...)))
BOUNDARY == 2300

NextBoundary ==
  \/ \E k \in {"w", "shift"} : KeyDown(k)
  \/ \E k \in {"w", "shift"} : KeyUp(k)
  \/ Click
  \/ PointerLockChange
  \/ \E dt \in DtSet, pick \in {NoHit, HitNoMesh} : Frame(dt, pick, {}, <<>>)
  \/ SelectWorld("low-poly")
  \/ WorldLoaded

SpecBoundary == InitDesktop /\ [][NextBoundary]_vars

\* C6 (world boundary): after every move() the actor's x and z lie in [-23, 23].
C6_WithinBoundary ==
  MovedFrame => /\ Abs(bean.position.x) <= BOUNDARY
                /\ Abs(bean.position.z) <= BOUNDARY

----------------------------------------------------------------------------
(* Stepping up: obstacles at, inside and just beyond the limits *)

StepTops == {0, HEIGHT, 2 * HEIGHT, 2 * HEIGHT + 1}
StepPicks == {NoHit, HitNoMesh} \cup {HitMesh(t) : t \in StepTops}
StepBlocked == {{}, {HEIGHT}, {2 * HEIGHT}, {3 * HEIGHT}}

NextStepUp ==
  \/ KeyDown("w")
  \/ KeyUp("w")
  \/ Click
  \/ PointerLockChange
  \/ \E pick \in StepPicks, blocked \in StepBlocked :
       /\ Frame(10, pick, blocked, <<>>)
       /\ Abs(bean'.position.x) <= MoveCoord /\ Abs(bean'.position.z) <= MoveCoord
  \/ HopEnd
  \/ SelectWorld("low-poly")
  \/ WorldLoaded

SpecStepUp == InitDesktop /\ [][NextStepUp]_vars

\* the step height the frame's probe measured: the obstacle's top above the
\* floor under the actor (the candidate keeps the actor's Y)
FrameStepHeight == op.pick.top - (pre.bean.position.y - HEIGHT)

\* the frame's headroom probe, cast from the obstacle's top plus the actor's
\* height, reported no hit
HeadroomClear == (op.pick.top + HEIGHT) \notin op.blocked

\* the frame's movement probe hit an obstacle
HitObstacle == MovedFrame /\ op.pick.hit /\ op.pick.mesh

\* C3 (step-up eligibility): a hit is step-up eligible if and only if
\* 0 < stepHeight <= 2 * HEIGHT and the probe cast from obstacleTop + HEIGHT
\* reports no hit; every other hit is a blocking collision, which leaves the
\* actor where it was.
C3_StepUpEligibility ==
  (MovedFrame /\ op.pick.hit) =>
     /\ op.info.hit
     /\ op.info.canStepUp <=>
          (op.pick.mesh /\ 0 < FrameStepHeight /\ FrameStepHeight <= 2 * HEIGHT
             /\ HeadroomClear)
     /\ ~op.info.canStepUp => bean.position = pre.bean.position
     /\ op.info.canStepUp => bean.position.y = op.pick.top + HEIGHT

\* an obstacle of eligible height refused because the headroom probe hit,
\* while something at another height would not have mattered
C3_Witness ==
  /\ HitObstacle /\ FrameStepHeight = HEIGHT /\ ~HeadroomClear
  /\ ~op.info.canStepUp /\ pre.bean.position.y = 2 * HEIGHT

\* C4 as amended (step-up boundary): with headroom clear, an obstacle with
\* stepHeight = 0 is not step-up eligible, one with stepHeight = 2 * HEIGHT is
\* eligible, and one with stepHeight just above 2 * HEIGHT is not.
C4_StepUpBoundary ==
  (HitObstacle /\ HeadroomClear) =>
     /\ FrameStepHeight = 0 => ~op.info.canStepUp
     /\ FrameStepHeight = 2 * HEIGHT => op.info.canStepUp
     /\ FrameStepHeight = 2 * HEIGHT + 1 => ~op.info.canStepUp

\* an obstacle whose top is level with the floor under the actor, headroom clear
C4_Witness ==
  /\ HitObstacle /\ HeadroomClear /\ FrameStepHeight = 0
  /\ ~op.info.canStepUp /\ bean.position = pre.bean.position

\* C4 as stated: with headroom clear, stepHeight = 0 is eligible, stepHeight =
\* 2 * HEIGHT is eligible and stepHeight just above 2 * HEIGHT is not.
C4_AsStated ==
  (HitObstacle /\ HeadroomClear) =>
     /\ FrameStepHeight = 0 => op.info.canStepUp
     /\ FrameStepHeight = 2 * HEIGHT => op.info.canStepUp
     /\ FrameStepHeight = 2 * HEIGHT + 1 => ~op.info.canStepUp

----------------------------------------------------------------------------
(* Looking around: pointer events, the pointer lock coming and going, frames *)

\* movementX, movementY of the mousemove events
MouseDeltas == {<<300, -100>>, <<-200, 300>>}

NextPointer ==
  \/ \E d \in MouseDeltas : MouseMove(d[1], d[2])
  \/ Click
  \/ LockLost
  \/ PointerLockChange
  \/ Frame(10, NoHit, {}, <<>>) /\ Abs(bean'.rotation.y) <= LookYaw
  \/ SelectWorld("low-poly")
  \/ WorldLoaded

SpecPointer == InitDesktop /\ [][NextPointer]_vars

\* C7 (consume-once): after a frame (one ControlsManager.update call) that
\* started with a non-zero pointer-delta accumulator, the accumulator is (0, 0).
C7_ConsumeOnce ==
  (op.name = "frame" /\ pre.mouseMovement # Zero2) => controls.mouseMovement = Zero2

\* the last step was a desktop frame that followed an earlier desktop frame
SecondDesktopFrame == op.name = "frame" /\ op.desktop /\ op.framed

\* the pitch of the first-person camera after rotate(yaw, pitch) from the state
\* before the frame
PitchAfter(pitch) ==
  Max(-(PI \div 3), Min(PI \div 3, pre.bean.camera.rotation.x + pitch))

\* C8 as amended (pointer events are summed): the yaw a desktop frame applies
\* is MOUSE_SENSITIVITY times the sum of the x deltas of the events that arrived
\* with the pointer locked since the previous desktop frame, and its pitch input
\* is minus MOUSE_SENSITIVITY times the sum of their y deltas.
C8_LockedEventsSummed ==
  (op.name = "frame" /\ op.desktop) =>
     /\ bean.rotation.y = pre.bean.rotation.y + MOUSE_SENSITIVITY * op.accepted.x
     /\ bean.camera.rotation.x = PitchAfter(-MOUSE_SENSITIVITY * op.accepted.y)
     /\ controls.mouseMovement = Zero2

\* two events between two desktop frames, both applied by the second
C8_Witness ==
  /\ SecondDesktopFrame
  /\ op.accepted = [x |-> 100, y |-> 200] /\ op.events = op.accepted
  /\ bean.rotation.y = pre.bean.rotation.y + 200

\* C8 as stated: the yaw the second of two consecutive desktop frames applies
\* is MOUSE_SENSITIVITY times the sum of the x deltas of all events that arrived
\* between them, and its pitch input minus MOUSE_SENSITIVITY times the sum of
\* their y deltas.
C8_AsStated ==
  SecondDesktopFrame =>
     /\ bean.rotation.y = pre.bean.rotation.y + MOUSE_SENSITIVITY * op.events.x
     /\ bean.camera.rotation.x = PitchAfter(-MOUSE_SENSITIVITY * op.events.y)

----------------------------------------------------------------------------
(* Head-mounted mode: the XR session, head poses, frames with the floor probe's
   answers, and everything else that happens around them *)

\* heights of the surfaces the floor probe meets: the ground, one at and one just
\* above the slack over an actor standing on the ground, an upper storey
HitYs == {0, HEIGHT + 50, HEIGHT + 51, 500}
HitEntries == {Miss} \cup {Hit(y) : y \in HitYs}
\* no entry, one entry, two different surfaces in either order, and a surface
\* with an entry that is no valid hit before or after it
HitLists == {<<>>} \cup {<<a>> : a \in HitEntries}
              \cup {<<Hit(p[1]), Hit(p[2])>> :
                      p \in {q \in HitYs \X HitYs : q[1] # q[2]}}
              \cup {<<Miss, Hit(0)>>, <<Hit(500), Miss>>}

XRPoses ==
  {[globalPosition |-> Vec(300, 160, -200), localY |-> 160, yaw |-> 500, flat |-> TRUE],
   [globalPosition |-> Vec(0, 660, 0), localY |-> 660, yaw |-> 0, flat |-> FALSE]}

NextVR ==
  \/ KeyDown("escape")
  \/ Blur
  \/ \E hits \in HitLists : Frame(10, NoHit, {}, hits)
  \/ SelectWorld("low-poly")
  \/ WorldLoaded
  \/ WorldFailed
  \/ XREnter
  \/ XRExit
  \/ \E p \in XRPoses : XRPose(p)

\* a platform with WebXR
InitXR == InitWith(TRUE)

SpecVR == InitXR /\ [][NextVR]_vars

\* the heights of the valid hits of the frame's floor probe
ValidYs == {op.hits[i].y : i \in {j \in 1..Len(op.hits) : op.hits[j].valid}}

\* the last step was a frame that ran the floor probe
ProbeFrame == op.name = "frame" /\ op.vr

\* C9 (floor continuity): lastKnownFloorHeight is overwritten only by a floor
\* probe with at least one valid hit; a probe without one returns the recorded
\* height and leaves it unchanged; no other operation modifies it.
C9_FloorContinuity ==
  /\ controls.lastKnownFloorHeight # pre.lastKnownFloorHeight
       => ProbeFrame /\ ValidYs # {} /\ controls.lastKnownFloorHeight \in ValidYs
  /\ (ProbeFrame /\ ValidYs = {})
       => /\ op.floor = pre.lastKnownFloorHeight
          /\ controls.lastKnownFloorHeight = pre.lastKnownFloorHeight
          /\ bean.position.y = pre.lastKnownFloorHeight + HEIGHT

\* a probe whose only entry is not a valid hit, with an upper storey recorded
C9_Witness ==
  /\ ProbeFrame /\ op.hits = <<Miss>>
  /\ pre.lastKnownFloorHeight = 500 /\ controls.lastKnownFloorHeight = 500
  /\ op.floor = 500

SetMax(S) == CHOOSE m \in S : \A n \in S : n <= m
SetMin(S) == CHOOSE m \in S : \A n \in S : m <= n

\* the valid hits at or below the actor's height plus the slack of 0.5
WithinSlack == {y \in ValidYs : y <= pre.bean.position.y + 50}

\* C10 (floor selection): for a non-empty set of valid hits detectFloorHeight
\* returns the highest hit at or below the actor's Y + 0.5 when there is one, and
\* otherwise the lowest hit of all.
C10_FloorSelection ==
  (ProbeFrame /\ ValidYs # {}) =>
     /\ op.floor = IF WithinSlack # {} THEN SetMax(WithinSlack) ELSE SetMin(ValidYs)
     /\ bean.position.y = op.floor + HEIGHT

\* hits at 0.0 and 5.0 with the actor on the ground: the floor is 0.0
C10_Witness ==
  /\ ProbeFrame /\ op.hits = <<Hit(500), Hit(0)>>
  /\ pre.bean.position.y = HEIGHT /\ op.floor = 0

\* C11 (head-mounted height invariant): at the end of every frame processed
\* while head-mounted mode is active, the actor's Y equals lastKnownFloorHeight
\* plus HEIGHT.
C11_HeadMountedHeight ==
  (op.name = "frame" /\ pre.isVRMode)
    => bean.position.y = controls.lastKnownFloorHeight + HEIGHT

\* a head-mounted frame that took the actor from the ground to the upper storey
\* while the camera was still at ground eye height
C11_Witness ==
  /\ ProbeFrame /\ pre.isVRMode /\ pre.bean.position.y = HEIGHT
  /\ pre.xr.globalPosition.y = 160
  /\ controls.lastKnownFloorHeight = 500 /\ bean.position.y = 500 + HEIGHT

----------------------------------------------------------------------------
(* The hop animation: step-ups in a row, and their completion callbacks
   arriving whenever the animations end *)

HopKeys == {"w", "2"}
\* two steps of a staircase
HopPicks == {NoHit, HitMesh(100), HitMesh(200)}

NextHop ==
  \/ \E k \in HopKeys : KeyDown(k)
  \/ \E k \in HopKeys : KeyUp(k)
  \/ Click
  \/ PointerLockChange
  \/ \E pick \in HopPicks :
       \* loadWorld disposes the old world first: nothing to hit while loading
       /\ game.loading = "none" \/ pick = NoHit
       \* frames of 0.1 s: several fit into the 1/3 s of one hop animation
       /\ Frame(1, pick, {}, <<>>)
       /\ Abs(bean'.position.x) <= MoveCoord /\ Abs(bean'.position.z) <= MoveCoord
  \/ HopEnd
  \/ SelectWorld("home")
  \/ WorldLoaded

SpecHop == InitDesktop /\ [][NextHop]_vars

\* C12 (desktop height invariant): in desktop mode the actor's Y changes only
\* inside the step-up branch of move(); a move without a hit, a rolled-back
\* move, a rotation, a zero-input frame, a view switch, a frame update and the
\* completion of the hop animation leave it unchanged.  (The resetPosition of a
\* world change is not among the steps the claim lists.)
C12_DesktopHeight ==
  (~pre.isVRMode /\ ~controls.isVRMode /\ op.name # "worldloaded"
     /\ bean.position.y # pre.bean.position.y)
    => MovedFrame /\ op.info.canStepUp

\* C14 (the hop animation is independent of logic): the completion callback of
\* a step-up animation never changes the actor's logical position, in whatever
\* order moves, step-ups, rollbacks, resets and completions happen.
C14_HopIsCosmetic ==
  op.name = "hopend" => bean.position = pre.bean.position

----------------------------------------------------------------------------
(* Losing the window's focus with keys held *)

FocusKeys == {"w", "shift"}

NextFocus ==
  \/ \E k \in FocusKeys : KeyDown(k)
  \/ \E k \in FocusKeys : KeyUp(k)
  \/ Blur
  \/ Click
  \/ LockLost
  \/ PointerLockChange
  \/ \E pick \in {NoHit, HitMesh(100)} :
       /\ Frame(10, pick, {}, <<>>)
       /\ Abs(bean'.position.x) <= MoveCoord /\ Abs(bean'.position.z) <= MoveCoord
  \/ HopEnd
  \/ SelectWorld("home")
  \/ WorldLoaded

SpecFocus == InitDesktop /\ [][NextFocus]_vars

----------------------------------------------------------------------------
(* Turning and looking in both views: the yaw past half a turn, the pitch
   against its limits, view switches and resets in between *)

\* a pointer movement to the upper right and one to the lower left: four of
\* the first turn the actor by more than half a turn
LookDeltas == {<<400, -500>>, <<-400, 500>>}

NextLook ==
  \/ \E k \in {"1", "2", "escape"} : KeyDown(k)
  \/ \E k \in {"1", "2"} : KeyUp(k)
  \/ \E d \in LookDeltas : MouseMove(d[1], d[2])
  \/ Click
  \/ PointerLockChange
  \/ Frame(10, NoHit, {}, <<>>) /\ bean'.rotation.y >= -LookYaw
  \/ SelectWorld("home")
  \/ WorldLoaded

SpecLook == InitDesktop /\ [][NextLook]_vars

\* the yaw a desktop frame adds: the arrow keys' and the pointer's
FrameYaw ==
  rotateSpeed(controls.keys) * op.dt * 100 + MOUSE_SENSITIVITY * op.accepted.x

\* C18 (pitch clamp): in FIRST_PERSON view the camera's pitch stays within
\* [-PI/3, PI/3] whatever rotate, setCameraView and resetPosition calls happened;
\* a rotate whose pitch would pass a limit leaves it exactly at the limit; the
\* actor's yaw is the plain sum of its inputs, never wrapped or clamped.
C18_PitchClamp ==
  /\ bean.cameraView = FPV => Abs(bean.camera.rotation.x) <= PI \div 3
  /\ (op.name = "frame" /\ op.desktop /\ bean.cameraView = FPV) =>
       LET wanted == pre.bean.camera.rotation.x - MOUSE_SENSITIVITY * op.accepted.y
       IN  bean.camera.rotation.x = IF wanted > PI \div 3 THEN PI \div 3
                                    ELSE IF wanted < -(PI \div 3) THEN -(PI \div 3)
                                    ELSE wanted
  /\ (op.name = "frame" /\ op.desktop) =>
       bean.rotation.y = pre.bean.rotation.y + FrameYaw

\* a frame that left the pitch at the upper limit, with the yaw past half a turn
C18_Witness ==
  /\ op.name = "frame" /\ op.desktop /\ bean.cameraView = FPV
  /\ pre.bean.camera.rotation.x - MOUSE_SENSITIVITY * op.accepted.y > PI \div 3
  /\ bean.camera.rotation.x = PI \div 3
  /\ bean.rotation.y > PI

\* C19 (entering FIRST_PERSON): setCameraView(FIRST_PERSON), from either view
\* and with any camera orientation before, leaves the camera's pitch 0 and its
\* yaw the actor's, and does not change the actor's position or yaw.
C19_EnterFirstPerson ==
  (op.name = "keydown" /\ op.key = "1") =>
     /\ bean.cameraView = FPV
     /\ bean.camera.rotation = [x |-> 0, y |-> bean.rotation.y]
     /\ bean.position = pre.bean.position
     /\ bean.rotation = pre.bean.rotation

\* pressed in FIRST_PERSON view itself, with the camera pitched
C19_Witness ==
  /\ op.name = "keydown" /\ op.key = "1"
  /\ pre.bean.cameraView = FPV /\ pre.bean.camera.rotation.x = 1000
  /\ bean.camera.rotation.x = 0 /\ bean.rotation.y # 0

----------------------------------------------------------------------------
(* The two views, through walking, turning, world changes and head-mounted
   sessions *)

ViewKeys == {"1", "2", "w", "arrowright"}
\* the head turned and moved in the room
ViewPose ==
  [globalPosition |-> Vec(60, 160, 0), localY |-> 160, yaw |-> 500, flat |-> TRUE]

NextView ==
  \/ \E k \in ViewKeys \cup {"escape"} : KeyDown(k)
  \/ \E k \in ViewKeys : KeyUp(k)
  \/ Click
  \/ PointerLockChange
  \/ /\ Frame(1, NoHit, {}, <<>>)
     /\ Abs(bean'.position.x) <= ViewCoord /\ Abs(bean'.position.z) <= ViewCoord
     /\ Abs(bean'.rotation.y) <= LookYaw
  \/ SelectWorld("home")
  \/ WorldLoaded
  \/ XREnter
  \/ XRExit
  \/ XRPose(ViewPose)

SpecView == InitXR /\ [][NextView]_vars

\* C15 (view mode): the view is FIRST_PERSON at first and one of two states
\* always; it changes only by setCameraView, on the keys '1' and '2': no move,
\* rotate, resetPosition, frame, world change or head-mounted switch changes it.
C15_ViewMode ==
  /\ bean.cameraView \in {FPV, FOLLOW}
  /\ op.name = "init" => bean.cameraView = FPV
  /\ bean.cameraView # pre.bean.cameraView => op.name = "keydown" /\ op.key \in {"1", "2"}
  /\ (op.name = "keydown" /\ op.key = "1") => bean.cameraView = FPV
  /\ (op.name = "keydown" /\ op.key = "2") => bean.cameraView = FOLLOW

\* a world change finds the follow view, away from the origin, and leaves it
C15_Witness ==
  /\ op.name = "worldloaded" /\ pre.bean.cameraView = FOLLOW
  /\ pre.bean.position.z # 0 /\ bean.cameraView = FOLLOW

\* C16 (body visibility): in every state after the actor's initialisation, also
\* before any view switch, the visual body is enabled if and only if the view is
\* FOLLOW.
C16_BodyVisibility ==
  bean.groupEnabled <=> bean.cameraView = FOLLOW

\* C17 (first-person camera yaw): in desktop mode with the view FIRST_PERSON,
\* the camera's yaw equals the actor's yaw at the end of every frame, also after
\* head-mounted sessions that have ended.
C17_CameraYawMirrors ==
  (op.name = "frame" /\ ~controls.isVRMode /\ bean.cameraView = FPV)
    => bean.camera.rotation.y = bean.rotation.y

----------------------------------------------------------------------------
(* Drift correction: head poses at, just off and far from the eye height over
   the floor, and frames that sample the floor *)

\* the camera at eye height over the ground, 0.01 and 0.02 off it in both
\* directions, and at eye height over the upper storey
DriftYs == {158, 159, 160, 161, 162, 660}
DriftPoses ==
  {[globalPosition |-> Vec(300, y, -200), localY |-> y, yaw |-> 500, flat |-> TRUE] :
     y \in DriftYs}
DriftHits == {<<>>, <<Hit(0)>>, <<Hit(500)>>}

NextDrift ==
  \/ \E hits \in DriftHits : Frame(10, NoHit, {}, hits)
  \/ SelectWorld("low-poly")
  \/ WorldLoaded
  \/ XREnter
  \/ XRExit
  \/ \E p \in DriftPoses : XRPose(p)

SpecDrift == InitXR /\ [][NextDrift]_vars

\* the error of the frame: the camera's world height over the eye height of 1.6
\* above the floor the probe returned
HeightError == pre.xr.globalPosition.y - (op.floor + 160)

\* C20 (drift correction): in each head-mounted frame, if |error| > 0.01 the
\* platform camera's local vertical position is decreased by exactly error, and
\* otherwise it is left unchanged; the camera's horizontal position is never
\* written by the frame.
C20_DriftCorrection ==
  /\ ProbeFrame =>
       xr.localY = IF Abs(HeightError) > 1 THEN pre.xr.localY - HeightError
                   ELSE pre.xr.localY
  /\ op.name = "frame" =>
       /\ xr.globalPosition.x = pre.xr.globalPosition.x
       /\ xr.globalPosition.z = pre.xr.globalPosition.z

\* a frame with the camera exactly 0.01 above the eye height, left alone, away
\* from the origin
C20_Witness ==
  /\ ProbeFrame /\ HeightError = 1
  /\ xr.localY = pre.xr.localY /\ xr.globalPosition.x = 300

\* a frame with the camera 5 below the eye height over the upper storey, raised
\* by exactly that much
C20_WitnessCorrected ==
  /\ ProbeFrame /\ HeightError = -500
  /\ xr.localY = pre.xr.localY + 500 /\ xr.globalPosition.y = 660

----------------------------------------------------------------------------
(* The head pose and the actor: head poses inside and outside the world's
   boundary, with and without a horizontal forward direction, keys pressed
   during the session, world loads *)

\* yaw is atan2(forward.x, forward.z); flat says that the horizontal part of the
\* forward direction is longer than 0.01.  The third pose looks straight down.
HeadPoses ==
  {[globalPosition |-> Vec(300, 160, -200), localY |-> 160, yaw |-> 500, flat |-> TRUE],
   [globalPosition |-> Vec(-2350, 160, 100), localY |-> 160, yaw |-> -1500, flat |-> TRUE],
   [globalPosition |-> Vec(300, 160, -200), localY |-> 160, yaw |-> 2000, flat |-> FALSE]}
HeadHits == {<<>>, <<Hit(0)>>}
HeadKeys == {"w", "arrowright"}

NextHead ==
  \/ \E k \in HeadKeys : KeyDown(k)
  \/ \E k \in HeadKeys : KeyUp(k)
  \/ \E hits \in HeadHits : Frame(10, NoHit, {}, hits)
  \/ SelectWorld("low-poly")
  \/ WorldLoaded
  \/ XREnter
  \/ XRExit
  \/ \E p \in HeadPoses : XRPose(p)
  \/ \E pressed \in BOOLEAN : Trigger(pressed)

SpecHead == InitXR /\ [][NextHead]_vars

\* C21 as stated: after every head-mounted frame the actor's yaw is the heading
\* of the camera's forward direction.
C21_AsStated == ProbeFrame => bean.rotation.y = pre.xr.yaw

\* C21 (head-mounted yaw is absolute): in a head-mounted frame in which the
\* horizontal part of the camera's forward direction is longer than 0.01 the
\* actor's yaw is overwritten with atan2(forward.x, forward.z), replacing the
\* previous yaw; in a frame in which it is not, the actor's yaw is left as it was.
C21_HeadYaw ==
  ProbeFrame =>
    bean.rotation.y = IF pre.xr.flat THEN pre.xr.yaw ELSE pre.bean.rotation.y

\* the head turned from 0.5 rad to -1.5 rad between two frames
C21_Witness ==
  /\ ProbeFrame /\ pre.xr.flat
  /\ pre.bean.rotation.y = 500 /\ pre.xr.yaw = -1500 /\ bean.rotation.y = -1500

\* the head looks straight down after a frame at -1.5 rad: the yaw is kept
C21_WitnessKept ==
  /\ ProbeFrame /\ ~pre.xr.flat
  /\ pre.bean.rotation.y = -1500 /\ bean.rotation.y = -1500

----------------------------------------------------------------------------
(* The motion of one frame as a function of the held keys and the yaw: every
   set of held keys, a few yaws, pointer locked in a loaded world *)

MotionKeys == {"w", "s", "arrowup", "arrowdown", "z", "x", "a", "d",
               "arrowleft", "arrowright", "shift"}
\* facing +z, turned right by 0.5 rad, turned left by 1.5 rad
MotionYaws == {0, 500, -1500}
\* |x|, |z| explored: a running diagonal step of 1 s at any yaw
MotionCoord == 1700

\* a loaded world, the pointer locked, the actor at the spawn point after
\* looking around, some keys held
InitMotion ==
  \E ks \in SUBSET MotionKeys, yaw \in MotionYaws :
    /\ bean = rotate(BeanInit, yaw, 0)
    /\ controls = [ControlsInit EXCEPT !.keys = ks, !.isPointerLocked = TRUE]
    /\ game = [GameInit(FALSE) EXCEPT !.world = "home", !.menu = FALSE,
                                      !.pointerLockElement = TRUE]
    /\ xr = XRInit
    /\ op = NoOp
    /\ pre = Snapshot
    /\ hist = HistInit

NextMotion ==
  /\ Frame(10, NoHit, {}, <<>>)
  /\ Abs(bean'.position.x) <= MotionCoord /\ Abs(bean'.position.z) <= MotionCoord

SpecMotion == InitMotion /\ [][NextMotion]_vars

\* the frame's displacement as the motion formula gives it, in 1/1000 of the
\* model's length unit: speed 6 or 12 units/s is 60 or 120 per tick of 0.1 s
FormulaSpeed == IF bean.isRunning THEN 120 ELSE 60
FormulaX ==
  (Sin(pre.bean.rotation.y) * op.forward + Cos(pre.bean.rotation.y) * op.strafe)
    * FormulaSpeed * op.dt
FormulaZ ==
  (Cos(pre.bean.rotation.y) * op.forward - Sin(pre.bean.rotation.y) * op.strafe)
    * FormulaSpeed * op.dt

\* C22 (motion formula): with no obstacle hit, move(f, s, dt) displaces the actor
\* by (sin(yaw)*f + cos(yaw)*s, 0, cos(yaw)*f - sin(yaw)*s) * speed * dt, speed 6
\* when not running and 12 when running (up to the rounding of the fixed-point
\* products, less than 0.01 per term); at yaw 0 the displacement is exactly
\* (s*speed*dt, 0, f*speed*dt).
C22_MotionFormula ==
  (MovedFrame /\ ~op.pick.hit) =>
     /\ Abs(1000 * (bean.position.x - pre.bean.position.x) - FormulaX) < 2000
     /\ Abs(1000 * (bean.position.z - pre.bean.position.z) - FormulaZ) < 2000
     /\ bean.position.y = pre.bean.position.y
     /\ pre.bean.rotation.y = 0 =>
          /\ bean.position.x = pre.bean.position.x + op.strafe * FormulaSpeed * op.dt
          /\ bean.position.z = pre.bean.position.z + op.forward * FormulaSpeed * op.dt

\* the spec's scenario A: from (0, 0.8, 0) at yaw 0, forward for 1 s, not
\* running, to (0, 0.8, 6)
C22_Witness ==
  /\ MovedFrame /\ ~op.pick.hit /\ op.forward = 1 /\ op.strafe = 0 /\ op.dt = 10
  /\ ~bean.isRunning /\ pre.bean.rotation.y = 0
  /\ pre.bean.position = Vec(0, HEIGHT, 0) /\ bean.position = Vec(0, HEIGHT, 600)

\* running backward and to the right at yaw 0.5 rad: both terms of both
\* components are at work
C22_WitnessDiagonal ==
  /\ MovedFrame /\ op.forward = -1 /\ op.strafe = 1 /\ bean.isRunning
  /\ pre.bean.rotation.y = 500
  /\ bean.position.x > pre.bean.position.x /\ bean.position.z < pre.bean.position.z

----------------------------------------------------------------------------
(* Platforms with and without WebXR: the same events on both *)

\* setupWebXR() obtained an XR helper, or it did not (no navigator.xr, or
\* CreateAsync rejected and the rejection was caught)
InitAnyPlatform == InitXR \/ InitDesktop

CapabilityHits == {<<>>, <<Hit(500)>>}

NextCapability ==
  \/ \E k \in {"w", "escape"} : KeyDown(k)
  \/ KeyUp("w")
  \/ Click
  \/ PointerLockChange
  \/ \E hits \in CapabilityHits :
       /\ Frame(10, NoHit, {}, hits)
       /\ Abs(bean'.position.x) <= MoveCoord /\ Abs(bean'.position.z) <= MoveCoord
  \/ SelectWorld("low-poly")
  \/ WorldLoaded
  \/ WorldFailed
  \/ XREnter
  \/ XRExit
  \/ \E p \in XRPoses : XRPose(p)

SpecCapability == InitAnyPlatform /\ [][NextCapability]_vars

\* C23 (capability absence): isVRMode becomes true only in response to the XR
\* session reaching IN_XR; on a platform without an XR helper the flag is false
\* in every reachable state and every frame takes the desktop path: it runs no
\* floor probe, leaves the XR camera and the recorded floor height alone, and
\* moves the actor exactly when the pointer is locked.
C23_CapabilityAbsence ==
  /\ (controls.isVRMode /\ ~pre.isVRMode) => op.name = "xrenter"
  /\ ~game.xrSupported =>
       /\ ~controls.isVRMode /\ ~game.inXR
       /\ op.name = "frame" =>
            /\ ~op.vr /\ op.desktop = pre.isPointerLocked
            /\ xr = pre.xr
            /\ controls.lastKnownFloorHeight = pre.lastKnownFloorHeight

\* without an XR helper: a frame that walked the actor on the desktop path
C23_Witness ==
  /\ ~game.xrSupported /\ MovedFrame /\ op.desktop /\ ~controls.isVRMode
  /\ bean.position.z = 600

\* with an XR helper: the flag went up when the session started
C23_WitnessEntered ==
  /\ game.xrSupported /\ op.name = "xrenter" /\ controls.isVRMode /\ ~pre.isVRMode

\* a desktop frame at yaw 0 with key k held, alone or together with Shift
HeldAlone(k) ==
  /\ op.name = "frame" /\ op.desktop /\ pre.bean.rotation.y = 0
  /\ controls.keys \ {"shift"} = {k}
\* the distance of one frame: 6 units/s, doubled while Shift is held
KeyStep == (IF "shift" \in controls.keys THEN 2 ELSE 1) * 60 * op.dt
\* what the frame did to the actor
FrameDX == bean.position.x - pre.bean.position.x
FrameDZ == bean.position.z - pre.bean.position.z
FrameDYaw == bean.rotation.y - pre.bean.rotation.y
Strafed(dir) == FrameDX = dir * KeyStep /\ FrameDZ = 0 /\ FrameDYaw = 0
Walked(dir) == FrameDX = 0 /\ FrameDZ = dir * KeyStep /\ FrameDYaw = 0
\* a turn at 2 rad/s, on the spot
Turned(dir) == FrameDX = 0 /\ FrameDZ = 0 /\ FrameDYaw = dir * 200 * op.dt

C24_WitnessTurn ==
  /\ HeldAlone("arrowleft") /\ FrameDYaw = -2000 /\ bean.position = pre.bean.position

----------------------------------------------------------------------------
(* World changes: walking, stepping up and switching the view in one world,
   going back to the menu and loading the next *)

ResetKeys == {"w", "2"}
ResetPicks == {NoHit, HitMesh(100)}

NextReset ==
  \/ \E k \in ResetKeys \cup {"escape"} : KeyDown(k)
  \/ \E k \in ResetKeys : KeyUp(k)
  \/ Click
  \/ PointerLockChange
  \/ \E pick \in ResetPicks :
       /\ game.loading = "none" \/ pick = NoHit
       /\ Frame(1, pick, {}, <<>>)
       /\ Abs(bean'.position.x) <= ViewCoord /\ Abs(bean'.position.z) <= ViewCoord
  \/ HopEnd
  \/ SelectWorld("low-poly")
  \/ WorldLoaded

SpecReset == InitDesktop /\ [][NextReset]_vars

\* the actor as resetPosition() is said to leave it
AtSpawn(b) ==
  /\ b.position = Vec(0, HEIGHT, 0) /\ b.rotation.y = 0
  /\ b.camera.rotation = [x |-> 0, y |-> 0]

\* the last step was driven by input: a frame that moved or turned the actor
\* from keys or pointer, a head-mounted frame, or a view key
InputDriven ==
  \/ op.name = "frame"
       /\ (op.moved \/ op.vr
             \/ (op.desktop /\ (rotateSpeed(controls.keys) # 0 \/ op.accepted # Zero2)))
  \/ op.name = "keydown" /\ op.key \in {"1", "2"}

\* C25 (reset on world change): after every successful world load the actor's
\* position is (0, HEIGHT, 0), its yaw is 0 and the desktop camera rotation is
\* (0, 0, 0), whatever the actor state was before the load, and it stays so
\* until the next input-driven move or rotation.
C25_ResetOnWorldChange ==
  /\ op.name = "worldloaded" => AtSpawn(bean)
  /\ (AtSpawn(pre.bean) /\ ~InputDriven) => AtSpawn(bean)

\* the part of C25 that does not depend on the view or on pending hops: a world
\* load puts the actor at (0, HEIGHT, 0) with yaw 0
C25_PositionAndYaw ==
  op.name = "worldloaded" =>
    bean.position = Vec(0, HEIGHT, 0) /\ bean.rotation.y = 0

\* a hop started in the previous world completes after the load: the actor,
\* reset to the spawn point in first-person view, is lifted to the old target
C25_HopAfterLoad ==
  /\ op.name = "hopend" /\ AtSpawn(pre.bean) /\ pre.bean.cameraView = FPV
  /\ bean.position = Vec(0, 100 + HEIGHT, 0)

\* a load in FOLLOW view: the camera is turned to look at the actor
C25_FollowAfterLoad ==
  /\ op.name = "worldloaded" /\ bean.cameraView = FOLLOW
  /\ bean.camera.rotation = [x |-> FOLLOW_PITCH, y |-> 0]

----------------------------------------------------------------------------
(* Chords: the eight axis keys pressed and released in any order, frames at
   yaw 0 in a loaded world *)

AxisKeys == {"w", "s", "arrowup", "arrowdown", "z", "x", "a", "d"}
\* keys held at the same time where chords are what matters
MaxChord == 3
\* |x|, |z| explored where chords are what matters: one step of 1 s
ChordCoord == 600

NextChord ==
  \/ \E k \in AxisKeys : KeyPress(k, MaxChord)
  \/ \E k \in AxisKeys : KeyUp(k)
  \/ Click
  \/ PointerLockChange
  \/ /\ Frame(10, NoHit, {}, <<>>)
     /\ Abs(bean'.position.x) <= ChordCoord /\ Abs(bean'.position.z) <= ChordCoord
  \/ SelectWorld("low-poly")
  \/ WorldLoaded

SpecChord == InitDesktop /\ [][NextChord]_vars

\* the axes as functions of the set of held keys
HeldStrafe ==
  IF "d" \in controls.keys THEN 1
  ELSE IF "a" \in controls.keys THEN -1
  ELSE IF "x" \in controls.keys THEN 1
  ELSE IF "z" \in controls.keys THEN -1
  ELSE 0
HeldForward ==
  IF "s" \in controls.keys \/ "arrowdown" \in controls.keys THEN -1
  ELSE IF "w" \in controls.keys \/ "arrowup" \in controls.keys THEN 1
  ELSE 0

----------------------------------------------------------------------------
(* The menu: frames while the main menu is shown or a selected world loads *)

\* the last step was a frame that ran while the menu was shown or the selected
\* world had not finished loading
MenuFrame == op.name = "frame" /\ (pre.menu \/ game.loading # "none")

\* C27 (the menu disables the controls): from showMainMenu until a selected
\* world has finished loading, no frame changes the actor's position or yaw, in
\* desktop mode and in head-mounted mode.
C27_MenuDisablesControls ==
  MenuFrame =>
    /\ bean.position = pre.bean.position
    /\ bean.rotation.y = pre.bean.rotation.y

\* a head-mounted frame with the menu shown carried the actor to the camera
C27_SlavedInMenu ==
  /\ MenuFrame /\ pre.menu /\ op.vr
  /\ pre.bean.position = Vec(0, HEIGHT, 0) /\ bean.position.x = 300

\* a desktop frame walked the actor while the selected world was loading
C27_WalkedWhileLoading ==
  /\ MenuFrame /\ ~pre.menu /\ op.desktop /\ op.moved
  /\ bean.position.z = pre.bean.position.z + 600

----------------------------------------------------------------------------
(* Tunnelling: sidestepping from the spawn point towards the kitchen counter of
   the low-poly world, with frames of 0.1 s and 0.2 s.  Here the movement
   probe's answer is computed from the counter's box. *)

\* rayLength of checkCollisionWithStepUp: 0.4
RayLength == 40

\* kitchenCounter: a box 8 x 3 x 2 centred at (15, 1.5, 0); along the line
\* z = 0 it spans x from 11 to 19, and its top at 3 is too high to step onto
Counter == [near |-> 1100, far |-> 1900, top |-> 300]

\* the world's meshes exist
WorldThere == game.world = "low-poly" /\ game.loading = "none"

\* what scene.pickWithRay can answer to a ray cast from x = origin at the
\* actor's height in the +x direction, RayLength long: a face of the counter
\* within the ray is reported; whether the far face is reported to a ray that
\* starts inside the box is the engine's choice
ProbeCounter(origin) ==
  IF WorldThere /\ origin <= Counter.near /\ Counter.near <= origin + RayLength
    THEN {HitMesh(Counter.top)}
  ELSE IF WorldThere /\ origin <= Counter.far /\ Counter.far <= origin + RayLength
    THEN {NoHit, HitMesh(Counter.top)}
  ELSE {NoHit}

\* the x of the position move() probes from: it has been advanced already
CandidateX(deltaTime) ==
  bean.position.x
    + Displacement(setRunning(bean, "shift" \in controls.keys),
                   forwardAxis(controls.keys), strafeAxis(controls.keys), deltaTime).x

\* frame durations: 0.1 s and 0.2 s
TunnelDts == {1, 2}

NextTunnel ==
  \/ KeyDown("d")
  \/ KeyUp("d")
  \/ Click
  \/ PointerLockChange
  \/ \E dt \in TunnelDts : \E pick \in ProbeCounter(CandidateX(dt)) :
       Frame(dt, pick, {}, <<>>)
  \/ SelectWorld("low-poly")
  \/ WorldLoaded

SpecTunnel == InitDesktop /\ [][NextTunnel]_vars

\* C28 (no tunnelling): a desktop move never carries the actor across or into a
\* blocking obstacle that lies between its position before the move and its
\* position after it; such a move ends in rollback.
C28_NoTunnelling ==
  (MovedFrame /\ WorldThere /\ pre.bean.position.x <= Counter.near
     /\ pre.bean.position.x + op.strafe * 60 * op.dt > Counter.near)
    => bean.position = pre.bean.position

\* a step of 0.6 towards the counter from 0.8 in front of it: the probe, cast
\* from 0.2 in front of it, hits and the move is rolled back
C28_Stopped ==
  /\ MovedFrame /\ WorldThere /\ op.dt = 1 /\ op.info.hit
  /\ pre.bean.position.x = 1020 /\ bean.position.x = 1020

\* a step of 1.2 from the same place: the probe is cast from 0.4 inside the
\* counter, meets no face, and the actor ends inside the counter
C28_Inside ==
  /\ MovedFrame /\ WorldThere /\ op.dt = 2 /\ ~op.info.hit
  /\ pre.bean.position.x = 1020 /\ bean.position.x = 1140

----------------------------------------------------------------------------
(* Climbing only: the actor's height over a run of desktop steps *)

\* C29 (the logical Y never decreases between resets): in desktop mode every
\* step-up strictly increases position.y and no operation other than
\* resetPosition lowers it.
C29_HeightNeverDecreases ==
  (~pre.isVRMode /\ ~controls.isVRMode) =>
     /\ (MovedFrame /\ op.info.canStepUp) => bean.position.y > pre.bean.position.y
     /\ op.name # "worldloaded" => bean.position.y >= pre.bean.position.y

\* the part of C29 that holds: a step-up strictly raises the actor
C29_StepUpRaises ==
  (MovedFrame /\ op.info.canStepUp) => bean.position.y > pre.bean.position.y

\* the completion of the first of two hops takes the actor down one step
C29_Lowered ==
  /\ op.name = "hopend" /\ pre.bean.position.y = 200 + HEIGHT
  /\ bean.position.y = 100 + HEIGHT

----------------------------------------------------------------------------
(* The actor follows the head *)

\* the state with head-mounted mode on and no XR helper handed over
WithoutHandle == [State EXCEPT !.controls.isVRMode = TRUE, !.controls.xrHelper = FALSE]

\* C30 (the horizontal position is slaved to the platform camera): at the end of
\* every head-mounted frame with an XR camera the actor's x and z equal the
\* camera's world x and z, whatever keys are held and wherever the camera is, the
\* world's boundary included; a head-mounted frame without an XR camera handle
\* leaves the actor's position and rotation unchanged.
C30_SlavedToCamera ==
  /\ ProbeFrame =>
       /\ bean.position.x = pre.xr.globalPosition.x
       /\ bean.position.z = pre.xr.globalPosition.z
       /\ ~op.moved /\ ~op.info.hit
  /\ \A hits \in HeadHits :
       LET t == gameUpdate(WithoutHandle, 10, NoHit, {}, hits)
       IN  /\ t.bean.position = bean.position
           /\ t.bean.rotation = bean.rotation

\* W held during the session, the head 0.5 beyond the boundary of 23: the actor
\* is there too
C30_Witness ==
  /\ ProbeFrame /\ "w" \in controls.keys
  /\ pre.bean.position.x # -2350
  /\ pre.xr.globalPosition.x = -2350 /\ bean.position.x = -2350
  /\ bean.position.z = 100

====
